---- MODULE Spec2Model ----
(***************************************************************************)
(* crossy_terminal: the game state machine of src/map.rs (MapState) over   *)
(* the lane variants of src/stripe.rs (Stripe, GreenStripe, Railroad,      *)
(* Road).                                                                  *)
(*                                                                         *)
(* Indices are the source's: window index idx of the VecDeque is element   *)
(* idx + 1 of the TLA+ sequence, columns are 0..STRIPE_LENGTH-1.           *)
(***************************************************************************)
EXTENDS Integers, Sequences, FiniteSets, TLC

\* ------------------------------------------------------------ constants
ROW_COUNT == 20
MAX_PLAYER_Y_INDEX == 3
STRIPE_LENGTH == 7
TILE_WIDTH == 3
\* Railroad::generate: rand::random_range(20..50)
RAIL_CYCLE_MIN == 20
RAIL_CYCLE_END == 50
\* Railroad::collides: cycle_pos < 3
RAIL_DEADLY == 3
\* MapState::update: tick % 5
PHASE_TICKS == 5
\* Stripe::generate: WeightedIndex::new([5, 3, 5])
WEIGHT_GREEN == 5
WEIGHT_RAIL == 3
WEIGHT_ROAD == 5
\* u8 (player_x, player_down)
U8_MODULUS == 256

\* --------------------------------------------------------------- bounds
\* Update is not taken once tick has reached MaxTick.
MaxTick == 26
\* A scrolling Up is not taken once score has reached MaxScore.
MaxScore == 1
\* Down is not taken once player_down has reached MaxDown.
MaxDown == 4
\* The thread rng starts at one of the stream positions 0..NumSeeds-1.
NumSeeds == 2

Columns == 0..(STRIPE_LENGTH - 1)
Phases == <<"Normal", "Muddy", "Shaky", "Risky", "Gone">>

\* ------------------------------------------------------------------ rng
\* rand::rng(): a stream of raw draws.  The stream is periodic and the seed
\* is the position it starts at.  Every typed draw below (weighted index,
\* bool array, bool, range) converts the next raw draw of the stream.
RngStream == <<26, 2, 16, 39, 68, 30, 20, 7, 7, 60, 8, 13, 12, 7>>

RngPeriod == Len(RngStream)

RngDraw(r) == RngStream[(r % RngPeriod) + 1]

RngNext(r) == (r + 1) % RngPeriod

\* dist.sample(): index 0, 1, 2 with weights 5, 3, 5
WeightedSample(raw) ==
  LET v == raw % (WEIGHT_GREEN + WEIGHT_RAIL + WEIGHT_ROAD)
  IN  IF v < WEIGHT_GREEN THEN 0
      ELSE IF v < WEIGHT_GREEN + WEIGHT_RAIL THEN 1
      ELSE 2

RECURSIVE Pow2(_)
Pow2(n) == IF n = 0 THEN 1 ELSE 2 * Pow2(n - 1)

\* rand::fill(&mut [bool; STRIPE_LENGTH]): one random bool per column
RandFill(raw) == [i \in Columns |-> ((raw \div Pow2(i)) % 2) = 1]

\* rand::random::<bool>()
RandBool(raw) == (raw % 2) = 1

\* rand::random_range(20..50)
RandRange(raw) == RAIL_CYCLE_MIN + (raw % (RAIL_CYCLE_END - RAIL_CYCLE_MIN))

\* ---------------------------------------------------------- GreenStripe
EmptyStripe == [kind |-> "Empty"]

GreenStripeGenerate(r) ==
  [stripe |-> [kind |-> "Green",
               trees |-> [RandFill(RngDraw(r)) EXCEPT ![STRIPE_LENGTH \div 2] = FALSE]],
   rng |-> RngNext(r)]

GreenStripeUpdate(s) == s

GreenStripeCollides(s, x) == s.trees[x]

\* ------------------------------------------------------------- Railroad
RailroadGenerate(r) ==
  LET cycle_length == RandRange(RngDraw(r))
  IN  [stripe |-> [kind |-> "Rail", cycle_length |-> cycle_length,
                   cycle_pos |-> cycle_length],
       rng |-> RngNext(r)]

\* Mutant of RailroadUpdate: the countdown stops at 0 instead of wrapping.
RailroadUpdateNoWrap(s) ==
  IF s.cycle_pos = 0 THEN s ELSE [s EXCEPT !.cycle_pos = s.cycle_pos - 1]

\* Mutant of RailroadUpdate: the countdown wraps to cycle_length - 1.
RailroadUpdateWrapShort(s) ==
  IF s.cycle_pos = 0
    THEN [s EXCEPT !.cycle_pos = s.cycle_length - 1]
    ELSE [s EXCEPT !.cycle_pos = s.cycle_pos - 1]

RailroadUpdate(s) ==
  IF s.cycle_pos = 0
    THEN [s EXCEPT !.cycle_pos = s.cycle_length]
    ELSE [s EXCEPT !.cycle_pos = s.cycle_pos - 1]

\* Mutant of RailroadCollides: the train misses the leftmost column.
RailroadCollidesByColumn(s, x) == s.cycle_pos < RAIL_DEADLY /\ x > 0

RailroadCollides(s, x) == s.cycle_pos < RAIL_DEADLY

\* ----------------------------------------------------------------- Road
\* advance_road draws a coin only in the two random arms of its match.
NeedsCoin(len) == len < -1 \/ len = 2

\* Mutant of AdvanceRoad: the arm of length 1 flips the coin like the arm
\* of length 2.
AdvanceRoadCoinAtOne(s, coin) ==
  LET len == s.current_car_len
      new_tile == IF len = -1 \/ len = 0 THEN FALSE
                  ELSE IF len < -1 THEN coin
                  ELSE IF len = 1 THEN coin
                  ELSE IF len = 2 THEN coin
                  ELSE FALSE
      new_len == IF new_tile
                   THEN (IF len + 1 > 1 THEN len + 1 ELSE 1)
                   ELSE (IF len > 1 THEN 1 ELSE len) - 1
      cars == IF s.left
                THEN [i \in Columns |->
                        IF i = STRIPE_LENGTH - 1 THEN new_tile ELSE s.cars[i + 1]]
                ELSE [i \in Columns |->
                        IF i = 0 THEN new_tile ELSE s.cars[i - 1]]
  IN  [s EXCEPT !.current_car_len = new_len, !.cars = cars]

\* Road::advance_road with the outcome of rand::random() given as coin
AdvanceRoad(s, coin) ==
  LET len == s.current_car_len
      new_tile == IF len = -1 \/ len = 0 THEN FALSE
                  ELSE IF len < -1 THEN coin
                  ELSE IF len = 1 THEN TRUE
                  ELSE IF len = 2 THEN coin
                  ELSE FALSE
      new_len == IF new_tile
                   THEN (IF len + 1 > 1 THEN len + 1 ELSE 1)
                   ELSE (IF len > 1 THEN 1 ELSE len) - 1
      cars == IF s.left
                THEN [i \in Columns |->
                        IF i = STRIPE_LENGTH - 1 THEN new_tile ELSE s.cars[i + 1]]
                ELSE [i \in Columns |->
                        IF i = 0 THEN new_tile ELSE s.cars[i - 1]]
  IN  [s EXCEPT !.current_car_len = new_len, !.cars = cars]

\* advance_road drawing its coin from the rng stream
AdvanceRoadRng(s, r) ==
  IF NeedsCoin(s.current_car_len)
    THEN [stripe |-> AdvanceRoad(s, RandBool(RngDraw(r))), rng |-> RngNext(r)]
    ELSE [stripe |-> AdvanceRoad(s, FALSE), rng |-> r]

RECURSIVE AdvanceRoadTimes(_, _, _)
AdvanceRoadTimes(s, r, n) ==
  IF n = 0 THEN [stripe |-> s, rng |-> r]
  ELSE LET a == AdvanceRoadRng(s, r)
       IN  AdvanceRoadTimes(a.stripe, a.rng, n - 1)

RoadGenerate(r) ==
  AdvanceRoadTimes([kind |-> "Road",
                    cars |-> [i \in Columns |-> FALSE],
                    current_car_len |-> 0,
                    offset |-> 0,
                    left |-> RandBool(RngDraw(r))],
                   RngNext(r), STRIPE_LENGTH)

\* Mutant of RoadUpdate: the road advances on every tick, whatever the offset.
RoadUpdateEveryTick(s, r) ==
  LET offset == (s.offset + 1) % TILE_WIDTH
      t == [s EXCEPT !.offset = offset]
  IN  AdvanceRoadRng(t, r)

RoadUpdate(s, r) ==
  LET offset == (s.offset + 1) % TILE_WIDTH
      t == [s EXCEPT !.offset = offset]
  IN  IF offset = 0 THEN AdvanceRoadRng(t, r) ELSE [stripe |-> t, rng |-> r]

RoadCollides(s, x) == s.cars[x]

\* --------------------------------------------------------------- Stripe
StripeGenerate(r) ==
  LET idx == WeightedSample(RngDraw(r))
  IN  IF idx = 0 THEN GreenStripeGenerate(RngNext(r))
      ELSE IF idx = 1 THEN RailroadGenerate(RngNext(r))
      ELSE RoadGenerate(RngNext(r))

StripeUpdate(s, r) ==
  IF s.kind = "Empty" THEN [stripe |-> s, rng |-> r]
  ELSE IF s.kind = "Green" THEN [stripe |-> GreenStripeUpdate(s), rng |-> r]
  ELSE IF s.kind = "Rail" THEN [stripe |-> RailroadUpdate(s), rng |-> r]
  ELSE RoadUpdate(s, r)

StripeCollides(s, x) ==
  IF s.kind = "Empty" THEN FALSE
  ELSE IF s.kind = "Green" THEN GreenStripeCollides(s, x)
  ELSE IF s.kind = "Rail" THEN RailroadCollides(s, x)
  ELSE RoadCollides(s, x)

\* ------------------------------------------------------------- MapState
VARIABLES
  state,                \* VecDeque<Stripe>, window index idx at state[idx + 1]
  player_x,             \* u8
  bottom_y,             \* u64
  player_down,          \* u8
  score,                \* u64
  wall_of_death,        \* u64
  wall_of_death_phase,  \* WallOfDeathPhase
  tick,                 \* u64
  game_started,         \* bool
  alive,                \* bool
  rng,                  \* position of rand::rng() in its stream
  wrapping,             \* TRUE once an integer overflow has wrapped: the build
                        \* has no overflow checks.  Until an overflow happens
                        \* the build profile is undetermined.
  panicked,             \* TRUE once an operation has panicked
  phase_ticks           \* history: ticks the hazard has spent in its current
                        \* phase since the phase was entered (by the start
                        \* latch, by a phase step or by the catch-up reset)

vars == <<state, player_x, bottom_y, player_down, score, wall_of_death,
          wall_of_death_phase, tick, game_started, alive, rng, wrapping,
          panicked, phase_ticks>>

\* state.fill_with(Stripe::generate): n stripes drawn one after the other
RECURSIVE FillWithGenerate(_, _, _)
FillWithGenerate(done, r, n) ==
  IF n = 0 THEN [stripes |-> done, rng |-> r]
  ELSE LET g == StripeGenerate(r)
       IN  FillWithGenerate(Append(done, g.stripe), g.rng, n - 1)

\* for i in 0..MAX_PLAYER_Y_INDEX + 1 { state[i] = Stripe::Green(generate()) }
RECURSIVE FillGreen(_, _, _)
FillGreen(stripes, r, i) ==
  IF i > MAX_PLAYER_Y_INDEX THEN [stripes |-> stripes, rng |-> r]
  ELSE LET g == GreenStripeGenerate(r)
       IN  FillGreen([stripes EXCEPT ![i + 1] = g.stripe], g.rng, i + 1)

\* the window of MapState::new() with the rng starting at stream position seed
NewWindow(seed) ==
  LET filled == FillWithGenerate(<<>>, seed, ROW_COUNT)
  IN  FillGreen(filled.stripes, filled.rng, 0)

\* the scalar fields of MapState::new()
NewFields ==
  /\ player_x = STRIPE_LENGTH \div 2
  /\ bottom_y = 0
  /\ player_down = 0
  /\ score = 0
  /\ alive = TRUE
  /\ wall_of_death = 0
  /\ wall_of_death_phase = "Normal"
  /\ tick = 0
  /\ game_started = FALSE

Init ==
  /\ \E seed \in 0..(NumSeeds - 1) :
       LET w == NewWindow(seed)
       IN  state = w.stripes /\ rng = w.rng
  /\ NewFields
  /\ wrapping = FALSE
  /\ panicked = FALSE
  /\ phase_ticks = 0

\* (i as i32) as usize, for i small in magnitude: a negative i becomes
\* 2^64 + i.  The value is kept as the pair (wrapped, off) = wrapped * 2^64 + off.
AsUsize(i) == [wrapped |-> i < 0, off |-> i]

\* MapState::y_pos: bottom_y + idx as u64.  With idx = 2^64 + off (off < 0)
\* the sum overflows u64 exactly when bottom_y + off >= 0, and the wrapped
\* sum is then bottom_y + off.  Otherwise the sum is 2^64 + (bottom_y + off).
YPos(by, idx) ==
  [overflow |-> idx.wrapped /\ by + idx.off >= 0,
   high |-> idx.wrapped /\ by + idx.off < 0,
   val |-> by + idx.off]

\* player_pos < self.wall_of_death, for wall_of_death < 2^63
PosBelow(pos, wod) == ~pos.high /\ pos.val < wod

\* MapState::detect_death on the given fields: "panic" when y_pos overflows
\* in a build with overflow checks, "dead" when alive is set to false,
\* "unchanged" otherwise.
DetectDeath(window, px, by, pd, wod, checks) ==
  LET index == MAX_PLAYER_Y_INDEX - pd
      player_pos == YPos(by, AsUsize(index))
  IN  IF player_pos.overflow /\ checks THEN "panic"
      ELSE IF \/ PosBelow(player_pos, wod)
              \/ index < 0
              \/ StripeCollides(window[index + 1], px)
        THEN "dead"
        ELSE "unchanged"

\* The builds an overflow may meet: without checks once one has wrapped,
\* either kind while none has happened.
Builds(overflows) == IF overflows /\ ~wrapping THEN BOOLEAN ELSE {FALSE}

\* Mutant of DeathCheck: liveness recomputed by every check (alive = !dead)
\* instead of only ever being cleared.
DeathCheckRecomputed ==
  LET overflows == YPos(bottom_y', AsUsize(MAX_PLAYER_Y_INDEX - player_down')).overflow
  IN  \E checks \in Builds(overflows) :
        LET d == DetectDeath(state', player_x', bottom_y', player_down',
                             wall_of_death', checks)
        IN  /\ alive' = IF d = "panic" THEN alive ELSE (d # "dead")
            /\ panicked' = (d = "panic")
            /\ wrapping' = (wrapping \/ (overflows /\ ~checks))

\* The tail of every operation: self.detect_death()
DeathCheck ==
  LET overflows == YPos(bottom_y', AsUsize(MAX_PLAYER_Y_INDEX - player_down')).overflow
  IN  \E checks \in Builds(overflows) :
        LET d == DetectDeath(state', player_x', bottom_y', player_down',
                             wall_of_death', checks)
        IN  /\ alive' = IF d = "dead" THEN FALSE ELSE alive
            /\ panicked' = (d = "panic")
            /\ wrapping' = (wrapping \/ (overflows /\ ~checks))

\* self.detect_death() in a call that has already wrapped an overflow: the
\* build has no overflow checks.
DeathCheckWrapped ==
  LET d == DetectDeath(state', player_x', bottom_y', player_down',
                       wall_of_death', FALSE)
  IN  /\ alive' = IF d = "dead" THEN FALSE ELSE alive
      /\ panicked' = FALSE
      /\ wrapping' = TRUE

\* if !self.game_started { self.game_started = true; }
StartGame == game_started' = TRUE

\* History only: phase_ticks follows the step just taken.
ObserveHazard ==
  phase_ticks' =
    IF ~game_started' \/ ~game_started THEN 0
    ELSE IF tick' # tick
      THEN (IF wall_of_death_phase' # wall_of_death_phase THEN 0
            ELSE phase_ticks + 1)
    ELSE IF bottom_y' # bottom_y /\ wall_of_death' # wall_of_death THEN 0
    ELSE phase_ticks

\* Mutant of CatchUp: the comparison made against the bottom_y of before the
\* increment.
CatchUpStale(wod, phase, by) ==
  IF wod < by - 1 THEN [wall |-> by, phase |-> "Normal"]
  ELSE [wall |-> wod, phase |-> phase]

\* the catch-up of MapState::up, after bottom_y += 1 (by is the new bottom_y)
CatchUp(wod, phase, by) ==
  IF wod < by THEN [wall |-> by, phase |-> "Normal"]
  ELSE [wall |-> wod, phase |-> phase]

\* Mutant of Up: the score is incremented before the test of the down-offset,
\* so the move_up that consumes the down-offset scores too.
UpAlwaysScores ==
  /\ ~panicked
  /\ player_down > 0 \/ score < MaxScore
  /\ StartGame
  /\ IF player_down > 0
       THEN /\ player_down' = player_down - 1
            /\ score' = score + 1
            /\ UNCHANGED <<state, rng, bottom_y, wall_of_death,
                           wall_of_death_phase>>
       ELSE LET g == StripeGenerate(rng)
                c == CatchUp(wall_of_death, wall_of_death_phase, bottom_y + 1)
            IN  /\ score' = score + 1
                /\ state' = Tail(Append(state, g.stripe))
                /\ rng' = g.rng
                /\ bottom_y' = bottom_y + 1
                /\ wall_of_death_phase' = c.phase
                /\ wall_of_death' = c.wall
                /\ UNCHANGED player_down
  /\ UNCHANGED <<player_x, tick>>
  /\ DeathCheck
  /\ ObserveHazard

\* Mutant of Up: the pop_front after the push_back is missing.
UpWithoutPop ==
  /\ ~panicked
  /\ player_down > 0 \/ score < MaxScore
  /\ StartGame
  /\ IF player_down > 0
       THEN /\ player_down' = player_down - 1
            /\ UNCHANGED <<score, state, rng, bottom_y, wall_of_death,
                           wall_of_death_phase>>
       ELSE LET g == StripeGenerate(rng)
                c == CatchUp(wall_of_death, wall_of_death_phase, bottom_y + 1)
            IN  /\ score' = score + 1
                /\ state' = Append(state, g.stripe)
                /\ rng' = g.rng
                /\ bottom_y' = bottom_y + 1
                /\ wall_of_death_phase' = c.phase
                /\ wall_of_death' = c.wall
                /\ UNCHANGED player_down
  /\ UNCHANGED <<player_x, tick>>
  /\ DeathCheck
  /\ ObserveHazard

Up ==
  /\ ~panicked
  /\ player_down > 0 \/ score < MaxScore
  /\ StartGame
  /\ IF player_down > 0
       THEN /\ player_down' = player_down - 1
            /\ UNCHANGED <<score, state, rng, bottom_y, wall_of_death,
                           wall_of_death_phase>>
       ELSE LET g == StripeGenerate(rng)
                c == CatchUp(wall_of_death, wall_of_death_phase, bottom_y + 1)
            IN  /\ score' = score + 1
                /\ state' = Tail(Append(state, g.stripe))
                /\ rng' = g.rng
                /\ bottom_y' = bottom_y + 1
                /\ wall_of_death_phase' = c.phase
                /\ wall_of_death' = c.wall
                /\ UNCHANGED player_down
  /\ UNCHANGED <<player_x, tick>>
  /\ DeathCheck
  /\ ObserveHazard

\* MapState::down
DownCall ==
  /\ ~panicked
  /\ StartGame
  /\ UNCHANGED <<state, rng, player_x, bottom_y, score, wall_of_death,
                 wall_of_death_phase, tick>>
  /\ \E checks \in Builds(player_down + 1 >= U8_MODULUS) :
       IF player_down + 1 >= U8_MODULUS /\ checks
         THEN /\ panicked' = TRUE
              /\ UNCHANGED <<player_down, alive, wrapping>>
         ELSE /\ player_down' = (player_down + 1) % U8_MODULUS
              /\ IF player_down + 1 >= U8_MODULUS
                   THEN DeathCheckWrapped
                   ELSE DeathCheck
  /\ ObserveHazard

Down ==
  /\ player_down < MaxDown
  /\ DownCall

\* Mutant of Left: the body of right() pasted into left().
LeftMovesRight ==
  /\ ~panicked
  /\ StartGame
  /\ player_x' = IF player_x < STRIPE_LENGTH - 1 THEN player_x + 1 ELSE player_x
  /\ UNCHANGED <<state, rng, bottom_y, player_down, score, wall_of_death,
                 wall_of_death_phase, tick>>
  /\ DeathCheck
  /\ ObserveHazard

Left ==
  /\ ~panicked
  /\ StartGame
  /\ player_x' = IF player_x > 0 THEN player_x - 1 ELSE player_x
  /\ UNCHANGED <<state, rng, bottom_y, player_down, score, wall_of_death,
                 wall_of_death_phase, tick>>
  /\ DeathCheck
  /\ ObserveHazard

Right ==
  /\ ~panicked
  /\ StartGame
  /\ player_x' = IF player_x < STRIPE_LENGTH - 1 THEN player_x + 1 ELSE player_x
  /\ UNCHANGED <<state, rng, bottom_y, player_down, score, wall_of_death,
                 wall_of_death_phase, tick>>
  /\ DeathCheck
  /\ ObserveHazard

\* for stripe in &mut self.state { stripe.update(); }
RECURSIVE UpdateStripes(_, _, _)
UpdateStripes(stripes, r, i) ==
  IF i > Len(stripes) THEN [stripes |-> stripes, rng |-> r]
  ELSE LET u == StripeUpdate(stripes[i], r)
       IN  UpdateStripes([stripes EXCEPT ![i] = u.stripe], u.rng, i + 1)

\* Mutant of PhaseStep: the start latch is not consulted.
PhaseStepUnlatched(started, t) == t % PHASE_TICKS = 0

\* if self.game_started && self.tick % 5 == 0, on the incremented tick
PhaseStep(started, t) == started /\ t % PHASE_TICKS = 0

\* Mutant of HazardStep: leaving Gone moves the wall the wrong way.
HazardStepBackward(wod, phase) ==
  CASE phase = "Normal" -> [wall |-> wod, phase |-> "Muddy"]
    [] phase = "Muddy" -> [wall |-> wod, phase |-> "Shaky"]
    [] phase = "Shaky" -> [wall |-> wod, phase |-> "Risky"]
    [] phase = "Risky" -> [wall |-> wod, phase |-> "Gone"]
    [] phase = "Gone" -> [wall |-> wod - 1, phase |-> "Normal"]

\* Mutant of HazardStep: the wall rises on entering Gone, not on leaving it.
HazardStepEarly(wod, phase) ==
  CASE phase = "Normal" -> [wall |-> wod, phase |-> "Muddy"]
    [] phase = "Muddy" -> [wall |-> wod, phase |-> "Shaky"]
    [] phase = "Shaky" -> [wall |-> wod, phase |-> "Risky"]
    [] phase = "Risky" -> [wall |-> wod + 1, phase |-> "Gone"]
    [] phase = "Gone" -> [wall |-> wod, phase |-> "Normal"]

\* Mutant of HazardStep: leaving Gone does not move the wall.
HazardStepWallStuck(wod, phase) ==
  CASE phase = "Normal" -> [wall |-> wod, phase |-> "Muddy"]
    [] phase = "Muddy" -> [wall |-> wod, phase |-> "Shaky"]
    [] phase = "Shaky" -> [wall |-> wod, phase |-> "Risky"]
    [] phase = "Risky" -> [wall |-> wod, phase |-> "Gone"]
    [] phase = "Gone" -> [wall |-> wod, phase |-> "Normal"]

\* the match on wall_of_death_phase
HazardStep(wod, phase) ==
  CASE phase = "Normal" -> [wall |-> wod, phase |-> "Muddy"]
    [] phase = "Muddy" -> [wall |-> wod, phase |-> "Shaky"]
    [] phase = "Shaky" -> [wall |-> wod, phase |-> "Risky"]
    [] phase = "Risky" -> [wall |-> wod, phase |-> "Gone"]
    [] phase = "Gone" -> [wall |-> wod + 1, phase |-> "Normal"]

\* MapState::update
UpdateCall ==
  /\ ~panicked
  /\ tick' = tick + 1
  /\ LET u == UpdateStripes(state, rng, 1)
     IN  state' = u.stripes /\ rng' = u.rng
  /\ LET h == IF PhaseStep(game_started, tick + 1)
                THEN HazardStep(wall_of_death, wall_of_death_phase)
                ELSE [wall |-> wall_of_death, phase |-> wall_of_death_phase]
     IN  wall_of_death' = h.wall /\ wall_of_death_phase' = h.phase
  /\ UNCHANGED <<player_x, bottom_y, player_down, score, game_started>>
  /\ DeathCheck
  /\ ObserveHazard

Update ==
  /\ tick < MaxTick
  /\ UpdateCall

\* MapState::render: the death text, or the frame (one entry per window row,
\* far end first, with the player overlay and the hazard phase of the row)
Render ==
  IF ~alive THEN <<"You died! Score: ", score>>
  ELSE [k \in 1..Len(state) |->
          LET idx == Len(state) - k
          IN  [stripe |-> state[idx + 1],
               overlay |-> IF idx = MAX_PLAYER_Y_INDEX - player_down
                             THEN player_x ELSE -1,
               phase |-> IF bottom_y + idx = wall_of_death THEN wall_of_death_phase
                         ELSE IF bottom_y + idx < wall_of_death THEN "Gone"
                         ELSE "Normal"]]

Next == Up \/ Down \/ Left \/ Right \/ Update

Spec == Init /\ [][Next]_vars

\* ------------------------------------------------------ rail scenario
\* The scenario of C9 and C10: a game as created by MapState::new() in which
\* a Railroad with any countdown is forced into the player's row and the
\* player stands on any column, alive.  Only tick() is called.
RailLengths == {RAIL_CYCLE_MIN, RAIL_CYCLE_END - 1}

InitRail ==
  /\ \E seed \in 0..(NumSeeds - 1), len \in RailLengths :
       \E pos \in 0..len :
         /\ state = [NewWindow(seed).stripes EXCEPT ![MAX_PLAYER_Y_INDEX + 1] =
                       [kind |-> "Rail", cycle_length |-> len, cycle_pos |-> pos]]
         /\ rng = NewWindow(seed).rng
  /\ player_x \in Columns
  /\ bottom_y = 0
  /\ player_down = 0
  /\ score = 0
  /\ alive = TRUE
  /\ wall_of_death = 0
  /\ wall_of_death_phase = "Normal"
  /\ tick = 0
  /\ game_started \in BOOLEAN
  /\ wrapping = FALSE
  /\ panicked = FALSE
  /\ phase_ticks = 0

NextRail == Update

SpecRail == InitRail /\ [][NextRail]_vars

\* --------------------------------------------------------- StripeRender
\* Block::to_char: the ColoredChar of the same colour
ToChar(block) ==
  CASE block = "Green" -> "Green"
    [] block = "BrightGreen" -> "BrightGreen"
    [] block = "White" -> "White"
    [] block = "Gray" -> "Gray"
    [] block = "DarkYellow" -> "DarkYellow"
    [] block = "Red" -> "Red"
    [] block = "Black" -> "Black"

\* Block::render_len: len copies of the block's ColoredChar
RenderLen(block, len) == [i \in 1..len |-> ToChar(block)]

\* Block::color_coded
ColorCoded(block) == RenderLen(block, TILE_WIDTH)

\* Option<Offset>: None, and Some(Offset { offset, left, fill })
NoOffset == [some |-> FALSE]

SomeOffset(offset, left, fill) ==
  [some |-> TRUE, offset |-> offset, left |-> left, fill |-> fill]

\* StripeRender::new (the overlay starts empty and is not part of render_base)
StripeRenderNew(blocks, offset) == [blocks |-> blocks, offset |-> offset]

\* StripeRender::default
StripeRenderDefault == StripeRenderNew([i \in Columns |-> "Black"], NoOffset)

\* GreenStripe::visualize
GreenStripeVisualize(s) ==
  StripeRenderNew([i \in Columns |-> IF s.trees[i] THEN "Green" ELSE "BrightGreen"],
                  NoOffset)

\* Railroad::visualize: 0..3 red, 3..12 dark yellow, otherwise gray
RailroadVisualize(s) ==
  StripeRenderNew(
    [i \in Columns |-> IF s.cycle_pos < 3 THEN "Red"
                       ELSE IF s.cycle_pos < 12 THEN "DarkYellow"
                       ELSE "Gray"],
    NoOffset)

\* Road::visualize
RoadVisualize(s) ==
  StripeRenderNew([i \in Columns |-> IF s.cars[i] THEN "Red" ELSE "Gray"],
                  SomeOffset(s.offset, s.left, "Gray"))

\* usize::max
Max(a, b) == IF a >= b THEN a ELSE b

\* Mutant of MiddleBlocks: the break does not test the direction, so a
\* left-moving row loses its last block.
RECURSIVE MiddleBlocksBreakAlways(_, _, _)
MiddleBlocksBreakAlways(sr, idx, res) ==
  IF idx > STRIPE_LENGTH - 1 THEN [res |-> res, next |-> idx]
  ELSE LET r == res \o ColorCoded(sr.blocks[idx])
       IN  IF idx = 5 /\ sr.offset.some
             THEN [res |-> r, next |-> idx + 1]
             ELSE MiddleBlocksBreakAlways(sr, idx + 1, r)

\* render_base, the loop "Middle": the blocks from iterator position idx on,
\* in full, stopping after index 5 when the offset is to the right.  The
\* result is the row so far and the position the iterator is left at.
RECURSIVE MiddleBlocks(_, _, _)
MiddleBlocks(sr, idx, res) ==
  IF idx > STRIPE_LENGTH - 1 THEN [res |-> res, next |-> idx]
  ELSE LET r == res \o ColorCoded(sr.blocks[idx])
       IN  IF idx = 5 /\ sr.offset.some /\ ~sr.offset.left
             THEN [res |-> r, next |-> idx + 1]
             ELSE MiddleBlocks(sr, idx + 1, r)

\* StripeRender::render_base
RenderBase(sr) ==
  LET o == sr.offset
      first == IF ~o.some THEN [res |-> <<>>, next |-> 0]
               ELSE IF o.left
                 THEN [res |-> RenderLen(sr.blocks[0], Max(TILE_WIDTH - o.offset, 0)),
                       next |-> 1]
                 ELSE [res |-> RenderLen(o.fill, o.offset), next |-> 0]
      middle == MiddleBlocks(sr, first.next, first.res)
  IN  IF ~o.some THEN middle.res
      ELSE IF o.left THEN middle.res \o RenderLen(o.fill, o.offset)
      ELSE middle.res \o RenderLen(sr.blocks[middle.next], Max(3 - o.offset, 0))

\* Stripe::visualize
StripeVisualize(s) ==
  IF s.kind = "Empty" THEN StripeRenderDefault
  ELSE IF s.kind = "Green" THEN GreenStripeVisualize(s)
  ELSE IF s.kind = "Rail" THEN RailroadVisualize(s)
  ELSE RoadVisualize(s)

\* ------------------------------------------------------- lane scenario
\* A single lane on its own, as generated and then ticked: state holds the
\* one lane, tick counts the calls of Stripe::update since the lane was
\* generated, and the thread rng is at any position of its stream at every
\* draw, so that every outcome of the draws is covered.  The other fields
\* are those of MapState::new() and are not touched.

\* LaneTick is not taken once tick has reached MaxLaneTick.
MaxLaneTick == 100

\* GreenStripe::generate for every outcome of rand::fill
GreenStripesGenerated ==
  {[kind |-> "Green", trees |-> [RandFill(raw) EXCEPT ![STRIPE_LENGTH \div 2] = FALSE]] :
     raw \in 0..(Pow2(STRIPE_LENGTH) - 1)}

\* Railroad::generate for every outcome of rand::random_range(20..50)
RailroadsGenerated ==
  {[kind |-> "Rail", cycle_length |-> RandRange(raw), cycle_pos |-> RandRange(raw)] :
     raw \in 0..(RAIL_CYCLE_END - RAIL_CYCLE_MIN - 1)}

\* n calls of advance_road on each road of S, for every outcome of the coins
RECURSIVE AdvanceRoadAny(_, _)
AdvanceRoadAny(S, n) ==
  IF n = 0 THEN S
  ELSE AdvanceRoadAny({AdvanceRoad(s, coin) : s \in S, coin \in BOOLEAN}, n - 1)

\* Road::generate for every outcome of the direction and of the coins
RoadsGenerated ==
  AdvanceRoadAny({[kind |-> "Road",
                   cars |-> [i \in Columns |-> FALSE],
                   current_car_len |-> 0,
                   offset |-> 0,
                   left |-> left] : left \in BOOLEAN},
                 STRIPE_LENGTH)

InitLane ==
  /\ \E lane \in {EmptyStripe} \cup GreenStripesGenerated
                   \cup RailroadsGenerated \cup RoadsGenerated :
       state = <<lane>>
  /\ rng = 0
  /\ NewFields
  /\ wrapping = FALSE
  /\ panicked = FALSE
  /\ phase_ticks = 0

\* stripe.update() on the lane
LaneTick ==
  /\ tick < MaxLaneTick
  /\ tick' = tick + 1
  /\ \E r \in 0..(RngPeriod - 1) : state' = <<StripeUpdate(state[1], r).stripe>>
  /\ UNCHANGED <<player_x, bottom_y, player_down, score, wall_of_death,
                 wall_of_death_phase, game_started, alive, rng, wrapping,
                 panicked, phase_ticks>>

NextLane == LaneTick

SpecLane == InitLane /\ [][NextLane]_vars

\* ------------------------------------------------------------ main loop
\* main(): while map.alive { poll for a key; apply it; render the frame }.
\* One step is one iteration of the loop.  Leaving the loop (the key q, a
\* dead player, a panic) ends the behaviour, which is stuttering for ever.

\* key.code.is_up() => map.up()
KeyUp == alive /\ Up

\* key.code.is_right() => map.right()
KeyRight == alive /\ Right

\* key.code.is_down() => map.down()
KeyDown == alive /\ Down

\* key.code.is_left() => map.left()
KeyLeft == alive /\ Left

\* the poll timed out, or the event was no key or another key: the iteration
\* only renders the frame
NoKey == alive /\ ~panicked /\ UNCHANGED vars

NextMain == KeyUp \/ KeyRight \/ KeyDown \/ KeyLeft \/ NoKey

SpecMain == Init /\ [][NextMain]_vars

\* ----------------------------------------------------- retreat scenario
\* A game as created by MapState::new() on which only move_down and the
\* move_up that consumes the down-offset are called, any number of times.

\* up() with a positive down-offset
UpConsume == player_down > 0 /\ Up

NextDown == DownCall \/ UpConsume

SpecDown == Init /\ [][NextDown]_vars

\* -------------------------------------------------------- stall scenario
\* A game as created by MapState::new() in which every movement, scrolling
\* included, may be called before the first tick, and from the first tick on
\* no move_up scrolls: move_left, move_right, move_down, the move_up that
\* consumes the down-offset and tick interleave freely.  The game has
\* started before the first tick, so tick counts the ticks of the stall.

\* StallTick is not taken once tick has reached MaxStallTick.
MaxStallTick == 101

\* up(): any before the first tick, then only with a positive down-offset
StallUp == (tick = 0 \/ player_down > 0) /\ Up

\* update() once the game has started
StallTick == game_started /\ tick < MaxStallTick /\ UpdateCall

NextStall == Left \/ Right \/ Down \/ StallUp \/ StallTick

SpecStall == Init /\ [][NextStall]_vars

\* =============================================================== claims

\* The window index of the player's row and the player's effective row, as
\* integers (no machine arithmetic).
PlayerIndex == MAX_PLAYER_Y_INDEX - player_down

EffectiveRow == bottom_y + PlayerIndex

\* The three death conditions of the death check, on the current state.
DeathCondition ==
  \/ EffectiveRow < wall_of_death
  \/ PlayerIndex < 0
  \/ PlayerIndex >= 0 /\ StripeCollides(state[PlayerIndex + 1], player_x)

\* C1 (as claimed): after any operation applied to an alive game the player
\* is dead if and only if one of the three death conditions holds in the
\* resulting state.
C1_DeathIffCondition ==
  [][alive => (~alive' <=> DeathCondition')]_vars

\* C2 (as claimed): after death every operation is a no-op on score, player
\* column, down-offset, bottom_y, the window, wall_of_death and the hazard
\* phase, and render() returns the death text with the score held at death.
C2_NoOpAfterDeath ==
  [][~alive =>
       /\ UNCHANGED <<score, player_x, player_down, bottom_y, state,
                      wall_of_death, wall_of_death_phase>>
       /\ Render' = <<"You died! Score: ", score>>]_vars

\* C3: the game is created alive, and once the liveness flag is false no
\* operation sets it back to true.
C3_LivenessOneWay ==
  /\ alive = TRUE
  /\ [][~alive => ~alive']_vars

\* C3 witness: the player is dead although, after further operations, no
\* death condition holds any more.
C3_Witness == ~alive /\ ~panicked /\ game_started /\ ~DeathCondition

\* C4: no step decreases wall_of_death, bottom_y or score.
C4_Monotonic ==
  [][/\ wall_of_death' >= wall_of_death
     /\ bottom_y' >= bottom_y
     /\ score' >= score]_vars

\* C4 witness: the window has scrolled and the wall has since risen by ticks.
C4_Witness == score > 0 /\ bottom_y > 0 /\ wall_of_death > bottom_y

\* C5: a scrolling move_up that takes bottom_y past wall_of_death sets
\* wall_of_death to the new bottom_y and the phase to Normal in the same
\* step, and wall_of_death >= bottom_y in every reachable state.
C5_CatchUp ==
  /\ wall_of_death >= bottom_y
  /\ [][/\ wall_of_death' >= bottom_y'
        /\ (bottom_y' > bottom_y /\ bottom_y' > wall_of_death) =>
             (wall_of_death' = bottom_y' /\ wall_of_death_phase' = "Normal")]_vars

\* C5 witness: the wall stands on the near edge after a scroll, before any
\* tick could have raised it, with the phase reset between two phase steps.
C5_Witness ==
  /\ bottom_y > 0
  /\ wall_of_death = bottom_y
  /\ wall_of_death_phase = "Normal"
  /\ tick > PHASE_TICKS
  /\ tick < PHASE_TICKS * Len(Phases)
  /\ tick % PHASE_TICKS # 0
  /\ phase_ticks = 0

\* The position of a phase in the cycle, 1..5, and the phase that follows.
PhaseIndex(p) == CHOOSE i \in 1..Len(Phases) : Phases[i] = p

PhaseAfter(p) == Phases[(PhaseIndex(p) % Len(Phases)) + 1]

\* C6 (as claimed): once started the phase advances in the fixed order, the
\* wall rises by one exactly on leaving Gone, and every phase lasts exactly
\* 5 ticks: a tick advances the phase if and only if it is the 5th tick the
\* hazard spends in its phase.
C6_EveryPhaseFiveTicks ==
  [][(tick' = tick + 1 /\ game_started) =>
       IF phase_ticks + 1 = PHASE_TICKS
         THEN /\ wall_of_death_phase' = PhaseAfter(wall_of_death_phase)
              /\ wall_of_death' = wall_of_death
                                  + (IF wall_of_death_phase = "Gone" THEN 1 ELSE 0)
         ELSE UNCHANGED <<wall_of_death, wall_of_death_phase>>]_vars

\* C6 (amended): a tick advances the phase if and only if the game has
\* started and the tick counter (counted from creation) becomes a multiple of
\* 5; a step follows the fixed order and raises the wall by one exactly on
\* leaving Gone; the phase that ends has lasted between 1 and 5 ticks; while
\* bottom_y is 0 the wall has risen at most once per 25 ticks.
C6_Cadence ==
  [][(tick' = tick + 1) =>
       IF game_started /\ tick' % PHASE_TICKS = 0
         THEN /\ wall_of_death_phase' = PhaseAfter(wall_of_death_phase)
              /\ wall_of_death' = wall_of_death
                                  + (IF wall_of_death_phase = "Gone" THEN 1 ELSE 0)
              /\ phase_ticks + 1 \in 1..PHASE_TICKS
              /\ bottom_y = 0 =>
                   Len(Phases) * wall_of_death' + PhaseIndex(wall_of_death_phase') - 1
                     <= tick' \div PHASE_TICKS
         ELSE /\ UNCHANGED <<wall_of_death, wall_of_death_phase>>
              /\ game_started => phase_ticks + 1 < PHASE_TICKS]_vars

\* C6 witness: without any scroll the wall has risen by ticks alone, after a
\* whole cycle of the phases.
C6_Witness ==
  /\ bottom_y = 0
  /\ wall_of_death = 1
  /\ wall_of_death_phase = "Normal"
  /\ tick = PHASE_TICKS * Len(Phases)

\* The lanes at window indices 0..3 are Grass with a clear center.
SpawnRowsSafe ==
  \A idx \in 0..MAX_PLAYER_Y_INDEX :
    /\ state[idx + 1].kind = "Green"
    /\ ~StripeCollides(state[idx + 1], STRIPE_LENGTH \div 2)

\* C7: a fresh game has Grass with a clear center at window indices 0..3 and
\* the player alive on the center column; until the first movement ticks
\* leave wall_of_death and the phase unchanged and the player alive; the
\* first movement sets the latch, which is never cleared.
C7_StartLatch ==
  /\ SpawnRowsSafe /\ player_x = STRIPE_LENGTH \div 2 /\ alive = TRUE
  /\ game_started = FALSE
  /\ [][/\ game_started => game_started'
        /\ (~game_started /\ tick' = tick + 1) =>
             /\ ~game_started'
             /\ UNCHANGED <<wall_of_death, wall_of_death_phase, player_x>>
             /\ alive' = TRUE
             /\ SpawnRowsSafe'
        /\ (~game_started /\ tick' = tick) => game_started']_vars

\* C7 witness: a whole hazard cycle of ticks has passed before the first
\* movement.
C7_Witness ==
  /\ ~game_started
  /\ tick >= PHASE_TICKS * Len(Phases)
  /\ alive

\* C8 (as claimed): a move_down that takes the down-offset from 3 to 4
\* completes and leaves the player reported dead.
C8_RetreatReportsDeath ==
  [][(alive /\ player_down = MAX_PLAYER_Y_INDEX
            /\ player_down' = MAX_PLAYER_Y_INDEX + 1) =>
       (~alive' /\ ~panicked')]_vars

\* The lane of the player's row is a Railroad.
PlayerOnRail == PlayerIndex >= 0 /\ state[PlayerIndex + 1].kind = "Rail"

PlayerRail == state[PlayerIndex + 1]

C10_UniformRail ==
  /\ \A i \in 1..Len(state), x \in Columns :
       state[i].kind = "Rail" => (StripeCollides(state[i], x) <=> state[i].cycle_pos < 3)
  /\ \A x \in Columns : ~StripeCollides(EmptyStripe, x)

\* C10 witness: the window holds a lethal Railroad and one that is not.
C10_Witness ==
  /\ \E i \in 1..Len(state) : state[i].kind = "Rail" /\ state[i].cycle_pos = 0
  /\ \E i \in 1..Len(state) : state[i].kind = "Rail" /\ state[i].cycle_pos = 3
  /\ tick > 0

\* C11: the player's column is in 0..6 in every reachable state; move_left at
\* column 0 and move_right at column 6 leave the column where it is, otherwise
\* move_left decreases and move_right increases it by exactly 1; neither
\* changes score, bottom_y, the down-offset, the window or the hazard.
C11_MovementClamp ==
  /\ player_x \in Columns
  /\ [][/\ player_x' \in Columns
        /\ Left => /\ player_x' = (IF player_x = 0 THEN 0 ELSE player_x - 1)
                   /\ UNCHANGED <<score, bottom_y, player_down, state,
                                  wall_of_death, wall_of_death_phase>>
        /\ Right => /\ player_x' = (IF player_x = STRIPE_LENGTH - 1
                                       THEN STRIPE_LENGTH - 1 ELSE player_x + 1)
                    /\ UNCHANGED <<score, bottom_y, player_down, state,
                                   wall_of_death, wall_of_death_phase>>]_vars

\* C11 witness: the player has walked to the leftmost column and, after a
\* tick, is still there.
C11_Witness == player_x = 0 /\ game_started /\ tick > 0 /\ ~panicked

\* The lane under test of the lane scenario, and its rendered base row.
Lane == state[1]

LaneRow == RenderBase(StripeVisualize(Lane))

\* The row of a lane without any offset: every block in full.
RECURSIVE FullRow(_, _)
FullRow(blocks, idx) ==
  IF idx > STRIPE_LENGTH - 1 THEN <<>>
  ELSE <<blocks[idx], blocks[idx], blocks[idx]>> \o FullRow(blocks, idx + 1)

\* C12: the rendered base row of every lane has exactly 7 * 3 = 21 sub-units,
\* without offset and, for a Road, for every offset 0, 1, 2 in both
\* directions; the offset shifts the content by that many sub-units,
\* truncating one edge and padding the other with the fill colour.
C12_RowWidth ==
  LET sr == StripeVisualize(Lane)
      full == FullRow(sr.blocks, 0)
      width == STRIPE_LENGTH * TILE_WIDTH
  IN  /\ Len(LaneRow) = width
      /\ Lane.kind # "Road" => LaneRow = full
      /\ Lane.kind = "Road" =>
           /\ Lane.offset \in 0..2
           /\ \A k \in 1..width :
                LaneRow[k] =
                  IF Lane.left
                    THEN (IF k + Lane.offset <= width THEN full[k + Lane.offset]
                          ELSE "Gray")
                    ELSE (IF k > Lane.offset THEN full[k - Lane.offset]
                          ELSE "Gray")

\* C12 witness: a right-moving Road at offset 2 whose last cell holds a car,
\* so that the truncated edge cuts a car.
C12_Witness ==
  /\ Lane.kind = "Road"
  /\ ~Lane.left
  /\ Lane.offset = 2
  /\ Lane.cars[STRIPE_LENGTH - 1]
  /\ LaneRow[STRIPE_LENGTH * TILE_WIDTH] = "Red"
  /\ LaneRow[1] = "Gray"

\* C13 (as claimed): every iteration of the driving loop, with or without a
\* key event, calls tick() exactly once, after the pending input is applied
\* and before the frame is rendered: every iteration advances the tick
\* counter by one.
C13_TickEveryIteration == [][tick' = tick + 1]_vars

\* C14: move_up with a positive down-offset decreases the down-offset by
\* exactly 1 and leaves score, bottom_y, the window, wall_of_death and the
\* hazard phase unchanged; with down-offset 0 it increases score and bottom_y
\* by exactly 1, the lane formerly at window index i+1 is at index i and a
\* newly generated lane is at the far end; the window holds exactly
\* ROW_COUNT lanes in every reachable state.
C14_MoveUp ==
  /\ Len(state) = ROW_COUNT
  /\ [][/\ Len(state') = ROW_COUNT
        /\ Up =>
             IF player_down > 0
               THEN /\ player_down' = player_down - 1
                    /\ UNCHANGED <<score, bottom_y, state, wall_of_death,
                                   wall_of_death_phase>>
               ELSE /\ player_down' = 0
                    /\ score' = score + 1
                    /\ bottom_y' = bottom_y + 1
                    /\ \A i \in 1..(ROW_COUNT - 1) : state'[i] = state[i + 1]
                    /\ state'[ROW_COUNT] = StripeGenerate(rng).stripe]_vars

\* C14 witness: the window has scrolled by a move_up from the top row, the
\* lanes have been ticked, and the player stands alive on the top row.
C14_Witness ==
  /\ score > 0
  /\ bottom_y = score
  /\ player_down = 0
  /\ tick > 0
  /\ alive
  /\ state[ROW_COUNT].kind # "Empty"

\* The last STRIPE_LENGTH trailing cells a Road has produced, oldest first:
\* a left-moving lane enters them at the last column, a right-moving lane at
\* column 0.
Trail(s) ==
  [k \in 1..STRIPE_LENGTH |->
     IF s.left THEN s.cars[k - 1] ELSE s.cars[STRIPE_LENGTH - k]]

\* The shape of a sequence of trailing cells: after the end of a vehicle the
\* next 2 cells are empty, no vehicle has length 1 and none is longer than 3.
TrailShape(t) ==
  /\ \A k \in 1..(Len(t) - 2) : (t[k] /\ ~t[k + 1]) => ~t[k + 2]
  /\ \A k \in 1..(Len(t) - 2) : ~(~t[k] /\ t[k + 1] /\ ~t[k + 2])
  /\ \A k \in 1..(Len(t) - 3) : ~(t[k] /\ t[k + 1] /\ t[k + 2] /\ t[k + 3])

\* C15: in the trailing cells produced by a Road's advance steps, from
\* generation (length counter 0) on and for every outcome of the coins, any
\* two vehicles are separated by at least 2 empty cells, no vehicle has
\* length 1 (a vehicle of length 1 is extended by the next advance) and no
\* vehicle is longer than 3 cells.
C15_TrafficShape ==
  /\ Lane.kind = "Road" => TrailShape(Trail(Lane))
  /\ [][Lane.kind = "Road" =>
          /\ TrailShape(Trail(Lane'))
          /\ (Lane'.offset = 0 /\ Lane.current_car_len = 1) =>
               (Trail(Lane')[STRIPE_LENGTH] /\ Lane'.current_car_len = 2)
          /\ Lane'.current_car_len <= 3]_vars

\* C15 witness: the trail holds a whole vehicle of 3 cells, the gap after it
\* and the first cell of the next vehicle, entered by an advance after
\* generation.
C15_Witness ==
  /\ Lane.kind = "Road"
  /\ tick >= TILE_WIDTH
  /\ Trail(Lane) = <<TRUE, TRUE, TRUE, FALSE, FALSE, FALSE, TRUE>>
  /\ Lane.current_car_len = 1

\* C16: a tick advances a Road's offset by one modulo 3, so the offset is
\* always 0, 1 or 2; the cells are unchanged when the new offset is 1 or 2,
\* and when it is 0 every cell moves by exactly one position in the lane's
\* direction and one new cell enters, at the last column of a left-moving
\* lane and at column 0 of a right-moving lane; the direction never changes;
\* Grass and Empty lanes are unchanged by a tick.
C16_TrafficTick ==
  /\ Lane.kind = "Road" => Lane.offset \in 0..(TILE_WIDTH - 1)
  /\ [][/\ Lane.kind \in {"Green", "Empty"} => Lane' = Lane
        /\ Lane.kind = "Road" =>
             /\ Lane'.kind = "Road"
             /\ Lane'.offset = (Lane.offset + 1) % TILE_WIDTH
             /\ Lane'.offset \in 0..(TILE_WIDTH - 1)
             /\ Lane'.left = Lane.left
             /\ IF Lane'.offset # 0
                  THEN /\ Lane'.cars = Lane.cars
                       /\ Lane'.current_car_len = Lane.current_car_len
                  ELSE IF Lane.left
                    THEN \A i \in 0..(STRIPE_LENGTH - 2) :
                           Lane'.cars[i] = Lane.cars[i + 1]
                    ELSE \A i \in 1..(STRIPE_LENGTH - 1) :
                           Lane'.cars[i] = Lane.cars[i - 1]]_vars

\* C16 witness: a right-moving Road whose offset has wrapped to 0 for the
\* second time, with the first cell of a vehicle just entered at column 0.
C16_Witness ==
  /\ Lane.kind = "Road"
  /\ ~Lane.left
  /\ tick = 2 * TILE_WIDTH
  /\ Lane.offset = 0
  /\ Lane.cars[0] /\ ~Lane.cars[1]
  /\ Lane.current_car_len = 1

\* C17 (as claimed): every call of move_down, after any number of calls,
\* increases the stored down-offset by exactly 1 and completes with its
\* death check, and every offset-consuming move_up decreases it by exactly 1.
C17_DownUnbounded ==
  [][/\ DownCall => (player_down' = player_down + 1 /\ ~panicked')
     /\ UpConsume => player_down' = player_down - 1]_vars

\* The ticks the wall needs to pass the highest row the player can stand on,
\* from the lower edge of the window: 4 rows of 5 phases of 5 ticks.
StallLimit == PHASE_TICKS * Len(Phases) * (MAX_PLAYER_Y_INDEX + 1)

\* C18: when the game has started and no move_up scrolls, whatever movements
\* interleave, after 100 ticks the player is dead and wall_of_death has risen
\* past every row the player can stand on.
C18_StallFatal ==
  (game_started /\ tick >= StallLimit) =>
     /\ ~alive
     /\ wall_of_death > bottom_y + MAX_PLAYER_Y_INDEX
     /\ EffectiveRow < wall_of_death

\* C18 witness: the 100th tick of the stall has left the player dead on the
\* top row although its lane does not collide: only the wall kills there.
C18_Witness ==
  /\ tick = StallLimit
  /\ ~alive
  /\ player_down = 0
  /\ ~StripeCollides(state[PlayerIndex + 1], player_x)
  /\ wall_of_death = bottom_y + MAX_PLAYER_Y_INDEX + 1
  /\ wall_of_death_phase = "Normal"

\* C19: score = bottom_y in every reachable state, and score changes only in
\* a move_up made with down-offset 0, which adds exactly 1: moving down and
\* up again over the same rows does not change the score.
C19_ScoreIsScroll ==
  /\ score = bottom_y
  /\ [][/\ score' = bottom_y'
        /\ score' # score => (Up /\ player_down = 0 /\ score' = score + 1)
        /\ player_down > 0 => score' = score]_vars

\* C19 witness: after a scroll the player has retreated two rows and lanes
\* have been ticked; the score is still the scroll distance.
C19_Witness ==
  /\ score = 1
  /\ bottom_y = 1
  /\ player_down = 2
  /\ tick > 0
  /\ alive

\* The rendered class of a Railroad: the colour all its blocks share.
RailClass(s) ==
  LET blocks == RailroadVisualize(s).blocks
  IN  IF \A i \in Columns : blocks[i] = "Red" THEN "danger"
      ELSE IF \A i \in Columns : blocks[i] = "DarkYellow" THEN "warning"
      ELSE IF \A i \in Columns : blocks[i] = "Gray" THEN "safe"
      ELSE "mixed"

\* The position of a Railroad in its period of cycle_length + 1 ticks, the
\* lane having been generated at tick 0.
RailPhase(s) == tick % (s.cycle_length + 1)

\* C20: a Railroad (cycle length in 20..49) starts its countdown at the cycle
\* length, safe; a tick decreases the countdown by 1 and wraps it from 0 to
\* the cycle length; in each period of cycle_length + 1 ticks the lane is
\* lethal (countdown < 3) on exactly the last 3 ticks, in the warning band
\* (countdown 3..11) on exactly the 9 ticks directly before them and safe on
\* all ticks before those, so it never turns lethal directly from safe; the
\* rendered class is danger exactly when the lane is lethal.
C20_RailWarning ==
  /\ [](Lane.kind = "Rail" =>
       LET len == Lane.cycle_length
           ph == RailPhase(Lane)
           lethal == \E x \in Columns : StripeCollides(Lane, x)
       IN  /\ len \in RAIL_CYCLE_MIN..(RAIL_CYCLE_END - 1)
           /\ Lane.cycle_pos = len - ph
           /\ lethal <=> Lane.cycle_pos < 3
           /\ lethal <=> ph \in (len - 2)..len
           /\ RailClass(Lane) = "danger" <=> lethal
           /\ RailClass(Lane) = "warning" <=> ph \in (len - 11)..(len - 3)
           /\ RailClass(Lane) = "warning" <=> Lane.cycle_pos \in 3..11
           /\ RailClass(Lane) = "safe" <=> ph \in 0..(len - 12))
  /\ [][Lane.kind = "Rail" =>
          /\ Lane'.kind = "Rail"
          /\ Lane'.cycle_length = Lane.cycle_length
          /\ Lane'.cycle_pos = IF Lane.cycle_pos = 0 THEN Lane.cycle_length
                               ELSE Lane.cycle_pos - 1
          /\ (Lane'.cycle_pos < 3 /\ Lane.cycle_pos >= 3) =>
               (RailClass(Lane) = "warning" /\ RailPhase(Lane) >= 9)]_vars

\* C20 witness: a Railroad of the longest cycle turns lethal for the second
\* time, after a whole period and the safe and warning ticks of the next.
C20_Witness ==
  /\ Lane.kind = "Rail"
  /\ Lane.cycle_length = RAIL_CYCLE_END - 1
  /\ Lane.cycle_pos = 2
  /\ tick > Lane.cycle_length + 1
  /\ RailClass(Lane) = "danger"

====
